---- MODULE Spec2Model ----
(***************************************************************************)
(* A model of lib/Support/Statistic.cpp: the Statistic counters, their     *)
(* lazy registration into the process-wide StatisticInfo under StatLock,   *)
(* the table report (PrintStatistics), the CSV export                      *)
(* (PrintStatisticsToCSV) and the teardown of the ManagedStatic.           *)
(*                                                                         *)
(* Five programs use the file.  In Spec a single thread bumps counters,    *)
(* sets the flag and requests reports and exports, each call running to    *)
(* its end before the next.  In SpecRace several threads bump counters,    *)
(* every statement of RegisterStatistic being one step of its thread,      *)
(* while the flag is set at any moment; the reports are those of teardown. *)
(* In SpecRender the threads of SpecRace also call PrintStatistics(OS),    *)
(* which is not one step either.  SpecWide renders a row for a counter     *)
(* holding any of a range of 64-bit values.  SpecFair is the threads of    *)
(* SpecRace under a fair scheduler, for as long as the program runs.       *)
(* Memory is sequentially consistent (sys::MemoryFence is a full fence).   *)
(***************************************************************************)
EXTENDS Integers, Sequences, FiniteSets, TLC

\* ------------------------------------------------------------------ bounds

\* Calls of a counter operator (++, +=) made in one run, over all threads.
MaxTouches == 3
\* Explicit report / export requests made in one run (teardown comes on top).
MaxRequests == 1

\* Threads the program has.
NumThreads == 2

\* The threads, and the Statistic objects the program declares.
Threads == 1..NumThreads
Statistics == {"NumA", "NumB", "NumC"}
\* The owner of a StatLock nobody holds.
NoThread == 0
\* cur of a thread that is in no operator.
NoStatistic == "none"

\* The amounts the program's call sites bump each counter by: operator++
\* adds 1, operator+= what it is given.
Amounts ==
  [NumA |-> {1}, NumB |-> {10}, NumC |-> {1}]

\* Texts are C strings: sequences of non-zero bytes.  Each program declares
\* its Statistics with (Name, Desc) texts of its own; the programs below put
\* the declaration order against the sorted order, make the description
\* decide, and declare the same texts twice.
Programs ==
  { [name |-> [NumA |-> <<66>>,  NumB |-> <<65>>,  NumC |-> <<65>>],
     desc |-> [NumA |-> <<120>>, NumB |-> <<121>>, NumC |-> <<120>>]],
    [name |-> [NumA |-> <<65, 66>>, NumB |-> <<65>>,  NumC |-> <<65>>],
     desc |-> [NumA |-> <<120>>,    NumB |-> <<121>>, NumC |-> <<121>>]] }

\* The builds of the file, by the three macros its #if lines test: a release
\* build, which has neither statistics nor the export, and a debug build
\* with both.
Builds ==
  { [NDEBUG |-> TRUE,  LLVM_ENABLE_STATS |-> FALSE, LLVM_CSV_OUTPUT |-> FALSE],
    [NDEBUG |-> FALSE, LLVM_ENABLE_STATS |-> TRUE,  LLVM_CSV_OUTPUT |-> TRUE] }

\* The -csv option as given on the command line: absent, or a run label.
Labels == {<<>>, <<114>>}

\* The local times an export may run at (what localtime returns).
Times ==
  { [year |-> 2026,   mon |-> 11, mday |-> 2, hour |-> 9,  min |-> 5],
    [year |-> 100000, mon |-> 1,  mday |-> 1, hour |-> 23, min |-> 59] }

\* What the Timestamp buffer may hold when strftime did not fill it.
Indeterminate == {<<>>, <<63>>}

VARIABLES
  build,        \* the macros this build was compiled with
  PrintCSV,     \* cl::opt<std::string> PrintCSV ("csv"); <<>> when not given
  Name,         \* Statistic::Name, per Statistic
  Desc,         \* Statistic::Desc, per Statistic
  Enabled,      \* cl::opt<bool> Enabled ("stats")
  Value,        \* Statistic::Value, per Statistic
  Initialized,  \* Statistic::Initialized, per Statistic
  Stats,        \* StatisticInfo::Stats, the vector of registered Statistics
  created,      \* whether the ManagedStatic StatInfo has been constructed
  lock,         \* the thread holding StatLock, or NoThread
  pc,           \* per thread: the statement it is at
  cur,          \* per thread: the Statistic its operator was called on
  phase,        \* "running" until llvm_shutdown, then "down"; "undefined"
                \* once two threads have raced on the vector
  out,          \* what was written to the output streams, in order
  csv,          \* what was appended to the export file, one entry per open
  touches,      \* operator calls made so far
  requests,     \* explicit report / export requests made so far
  \* history, read by the properties only
  everEnabled,  \* Enabled has been true at some moment
  added,        \* per Statistic: the sum of the amounts it was bumped by
  regEnabled,   \* per Statistic: what its registration read Enabled as
  regOrder,     \* the Statistics in the order addStatistic was called
  called,       \* the entry points called so far
  torn          \* <<>>, or what llvm_shutdown found

config == <<build, PrintCSV, Name, Desc>>
flag == <<Enabled, everEnabled>>
counters == <<Value, added>>
registry == <<Stats, created, regOrder>>
threads == <<lock, pc, cur>>
sinks == <<out, csv>>
budget == <<touches, requests>>
vars == <<config, flag, counters, Initialized, regEnabled, registry, threads,
          sinks, budget, phase, called, torn>>

\* ------------------------------------------------------- build predicates

\* #if !defined(NDEBUG) || defined(LLVM_ENABLE_STATS)
StatsBuilt == ~build.NDEBUG \/ build.LLVM_ENABLE_STATS

\* #if !defined(NDEBUG) && defined(LLVM_ENABLE_STATS) && defined(LLVM_CSV_OUTPUT)
CsvBuilt == ~build.NDEBUG /\ build.LLVM_ENABLE_STATS /\ build.LLVM_CSV_OUTPUT

\* ------------------------------------------------------------------- Init

Init ==
  /\ build \in Builds
  /\ PrintCSV \in Labels
  /\ (~build.LLVM_CSV_OUTPUT => PrintCSV = <<>>)
  /\ \E p \in Programs : Name = p.name /\ Desc = p.desc
  /\ Enabled = FALSE
  /\ Value = [s \in Statistics |-> 0]
  /\ Initialized = [s \in Statistics |-> FALSE]
  /\ Stats = <<>>
  /\ created = FALSE
  /\ lock = NoThread
  /\ pc = [t \in Threads |-> "idle"]
  /\ cur = [t \in Threads |-> NoStatistic]
  /\ phase = "running"
  /\ out = <<>>
  /\ csv = <<>>
  /\ touches = 0
  /\ requests = 0
  /\ everEnabled = FALSE
  /\ added = [s \in Statistics |-> 0]
  /\ regEnabled = [s \in Statistics |-> "unread"]
  /\ regOrder = <<>>
  /\ called = {}
  /\ torn = <<>>

\* ------------------------------------------------------ counter operators

\* operator++ / operator+=: the atomic add to Value, then init().  In a build
\* without statistics the operators do nothing.
AtomicAdd(t, s, by) ==
  /\ phase = "running"
  /\ pc[t] = "idle"
  /\ touches < MaxTouches
  /\ touches' = touches + 1
  /\ IF StatsBuilt
       THEN /\ Value' = [Value EXCEPT ![s] = @ + by]
            /\ added' = [added EXCEPT ![s] = @ + by]
            /\ pc' = [pc EXCEPT ![t] = "init"]
            /\ cur' = [cur EXCEPT ![t] = s]
       ELSE UNCHANGED <<Value, added, pc, cur>>
  /\ UNCHANGED <<config, flag, Initialized, regEnabled, registry, lock, sinks,
                 requests, phase, called, torn>>

\* init(): the unlocked read of Initialized; RegisterStatistic when false.
InitCheck(t) ==
  /\ pc[t] = "init"
  /\ IF Initialized[cur[t]]
       THEN /\ pc' = [pc EXCEPT ![t] = "idle"]
            /\ cur' = [cur EXCEPT ![t] = NoStatistic]
       ELSE /\ pc' = [pc EXCEPT ![t] = "lock"]
            /\ UNCHANGED cur
  /\ UNCHANGED <<config, flag, counters, Initialized, regEnabled, registry,
                 lock, sinks, budget, phase, called, torn>>

\* ----------------------------------------------------- RegisterStatistic

\* sys::SmartScopedLock<true> Writer(*StatLock);
AcquireLock(t) ==
  /\ pc[t] = "lock"
  /\ lock = NoThread
  /\ lock' = t
  /\ pc' = [pc EXCEPT ![t] = "check"]
  /\ UNCHANGED <<config, flag, counters, Initialized, regEnabled, registry,
                 cur, sinks, budget, phase, called, torn>>

\* CheckInitialized without the test: every caller goes on to register.
CheckInitializedSkipped(t) ==
  /\ pc[t] = "check"
  /\ pc' = [pc EXCEPT ![t] = "enabled"]
  /\ UNCHANGED <<config, flag, counters, Initialized, regEnabled, registry,
                 lock, cur, sinks, budget, phase, called, torn>>

\* CheckInitialized of a RegisterStatistic that returns early, with the lock
\* still held, when it finds the Statistic registered.
CheckInitializedLeaking(t) ==
  /\ pc[t] = "check"
  /\ pc' = [pc EXCEPT ![t] = IF Initialized[cur[t]] THEN "idle" ELSE "enabled"]
  /\ UNCHANGED <<config, flag, counters, Initialized, regEnabled, registry,
                 lock, cur, sinks, budget, phase, called, torn>>

\* if (!Initialized) {
CheckInitialized(t) ==
  /\ pc[t] = "check"
  /\ pc' = [pc EXCEPT ![t] = IF Initialized[cur[t]] THEN "unlock" ELSE "enabled"]
  /\ UNCHANGED <<config, flag, counters, Initialized, regEnabled, registry,
                 lock, cur, sinks, budget, phase, called, torn>>

\* StatsEnabled without the test: a Statistic is added whatever the flag.
StatsEnabledIgnored == TRUE

\* The test of if (Enabled).
StatsEnabled == Enabled

\* CheckEnabled with the store to Initialized moved up in front of the call
\* of addStatistic, as a store that is not fenced may be.
CheckEnabledMarking(t) ==
  /\ pc[t] = "enabled"
  /\ pc' = [pc EXCEPT ![t] = IF StatsEnabled THEN "add" ELSE "mark"]
  /\ regEnabled' = [regEnabled EXCEPT ![cur[t]] = IF Enabled THEN "on" ELSE "off"]
  /\ Initialized' = [Initialized EXCEPT ![cur[t]] = TRUE]
  /\ UNCHANGED <<config, flag, counters, registry, lock, cur,
                 sinks, budget, phase, called, torn>>

\* if (Enabled)
CheckEnabled(t) ==
  /\ pc[t] = "enabled"
  /\ pc' = [pc EXCEPT ![t] = IF StatsEnabled THEN "add" ELSE "mark"]
  /\ regEnabled' = [regEnabled EXCEPT ![cur[t]] = IF Enabled THEN "on" ELSE "off"]
  /\ UNCHANGED <<config, flag, counters, Initialized, registry, lock, cur,
                 sinks, budget, phase, called, torn>>

\* StatisticInfo::addStatistic: Stats.push_back(S)
addStatistic(S) == Append(Stats, S)

\* AddStatistic with the push_back lost (made on a copy of the vector).
AddStatisticLost(t) ==
  /\ pc[t] = "add"
  /\ created' = TRUE
  /\ pc' = [pc EXCEPT ![t] = "mark"]
  /\ UNCHANGED <<config, flag, counters, Initialized, regEnabled, Stats,
                 regOrder, lock, cur, sinks, budget, phase, called, torn>>

\* StatInfo->addStatistic(this); the -> constructs the ManagedStatic.
AddStatistic(t) ==
  /\ pc[t] = "add"
  /\ created' = TRUE
  /\ Stats' = addStatistic(cur[t])
  /\ regOrder' = Append(regOrder, cur[t])
  /\ pc' = [pc EXCEPT ![t] = "mark"]
  /\ UNCHANGED <<config, flag, counters, Initialized, regEnabled, lock, cur,
                 sinks, budget, phase, called, torn>>

\* MarkInitialized that also starts the counter afresh, as construct() does.
MarkInitializedZeroing(t) ==
  /\ pc[t] = "mark"
  /\ Initialized' = [Initialized EXCEPT ![cur[t]] = TRUE]
  /\ Value' = [Value EXCEPT ![cur[t]] = 0]
  /\ pc' = [pc EXCEPT ![t] = "unlock"]
  /\ UNCHANGED <<config, flag, added, regEnabled, registry, lock, cur,
                 sinks, budget, phase, called, torn>>

\* Initialized = true;
MarkInitialized(t) ==
  /\ pc[t] = "mark"
  /\ Initialized' = [Initialized EXCEPT ![cur[t]] = TRUE]
  /\ pc' = [pc EXCEPT ![t] = "unlock"]
  /\ UNCHANGED <<config, flag, counters, regEnabled, registry, lock, cur,
                 sinks, budget, phase, called, torn>>

\* The end of RegisterStatistic: Writer's destructor releases StatLock.
ReleaseLock(t) ==
  /\ pc[t] = "unlock"
  /\ lock' = NoThread
  /\ pc' = [pc EXCEPT ![t] = "idle"]
  /\ cur' = [cur EXCEPT ![t] = NoStatistic]
  /\ UNCHANGED <<config, flag, counters, Initialized, regEnabled, registry,
                 sinks, budget, phase, called, torn>>

\* -------------------------------------------- a counter operator, whole

\* Bump of a RegisterStatistic that sets Initialized only when it has added
\* the Statistic, so that a later touch registers again.
BumpRetrying(S, by) ==
  /\ phase = "running"
  /\ touches < MaxTouches
  /\ touches' = touches + 1
  /\ IF StatsBuilt
       THEN /\ Value' = [Value EXCEPT ![S] = @ + by]
            /\ added' = [added EXCEPT ![S] = @ + by]
            /\ IF Initialized[S]
                 THEN UNCHANGED <<Initialized, regEnabled, registry>>
                 ELSE /\ regEnabled' =
                           [regEnabled EXCEPT ![S] =
                              IF @ # "unread" THEN @
                              ELSE IF Enabled THEN "on" ELSE "off"]
                      /\ IF StatsEnabled
                           THEN /\ created' = TRUE
                                /\ Stats' = addStatistic(S)
                                /\ regOrder' = Append(regOrder, S)
                                /\ Initialized' = [Initialized EXCEPT ![S] = TRUE]
                           ELSE UNCHANGED <<registry, Initialized>>
       ELSE UNCHANGED <<counters, Initialized, regEnabled, registry>>
  /\ UNCHANGED <<config, flag, threads, sinks, requests, phase, called, torn>>

\* operator++ / operator+= run from its call to its return with no other
\* thread in between: the add to Value and, for a Statistic whose
\* Initialized is false, RegisterStatistic, which takes StatLock, adds the
\* Statistic if the flag is set, sets Initialized and releases StatLock.
Bump(S, by) ==
  /\ phase = "running"
  /\ touches < MaxTouches
  /\ touches' = touches + 1
  /\ IF StatsBuilt
       THEN /\ Value' = [Value EXCEPT ![S] = @ + by]
            /\ added' = [added EXCEPT ![S] = @ + by]
            /\ IF Initialized[S]
                 THEN UNCHANGED <<Initialized, regEnabled, registry>>
                 ELSE /\ regEnabled' =
                           [regEnabled EXCEPT ![S] = IF Enabled THEN "on" ELSE "off"]
                      /\ IF StatsEnabled
                           THEN /\ created' = TRUE
                                /\ Stats' = addStatistic(S)
                                /\ regOrder' = Append(regOrder, S)
                           ELSE UNCHANGED registry
                      /\ Initialized' = [Initialized EXCEPT ![S] = TRUE]
       ELSE UNCHANGED <<counters, Initialized, regEnabled, registry>>
  /\ UNCHANGED <<config, flag, threads, sinks, requests, phase, called, torn>>

\* ------------------------------------------------------- the enabled flag

\* llvm::EnableStatistics
EnableStatistics ==
  /\ phase = "running"
  /\ Enabled' = TRUE
  /\ everEnabled' = TRUE
  /\ UNCHANGED <<config, counters, Initialized, regEnabled, registry, threads,
                 sinks, budget, phase, called, torn>>

\* SetStatsOption that empties the vector when the flag is cleared.
SetStatsOptionClearing(b) ==
  /\ phase = "running"
  /\ Enabled' = b
  /\ everEnabled' = (everEnabled \/ b)
  /\ Stats' = IF b THEN Stats ELSE <<>>
  /\ UNCHANGED <<config, counters, Initialized, regEnabled, created, regOrder,
                 threads, sinks, budget, phase, called, torn>>

\* The -stats option: the command line parser stores the value it is given.
SetStatsOption(b) ==
  /\ phase = "running"
  /\ Enabled' = b
  /\ everEnabled' = (everEnabled \/ b)
  /\ UNCHANGED <<config, counters, Initialized, regEnabled, registry, threads,
                 sinks, budget, phase, called, torn>>

\* ------------------------------------------------------------- C strings

\* std::strcmp: the difference of the first bytes that differ, the
\* terminating NUL counting as byte 0.
RECURSIVE strcmp(_, _)
strcmp(a, b) ==
  LET x == IF a = <<>> THEN 0 ELSE Head(a)
      y == IF b = <<>> THEN 0 ELSE Head(b)
  IN  IF x # y THEN x - y
      ELSE IF x = 0 THEN 0
      ELSE strcmp(Tail(a), Tail(b))

\* utostr: the decimal digits of an unsigned value.
RECURSIVE utostr(_)
utostr(v) ==
  IF v < 10 THEN <<48 + v>> ELSE utostr(v \div 10) \o <<48 + (v % 10)>>

Spaces(n) == [i \in 1..n |-> 32]

\* "%*u": right-aligned in a field of width w.
PadLeft(s, w) == IF Len(s) >= w THEN s ELSE Spaces(w - Len(s)) \o s

\* "%-*s": left-aligned in a field of width w.
PadRight(s, w) == IF Len(s) >= w THEN s ELSE s \o Spaces(w - Len(s))

MaxOf(S) == IF S = {} THEN 0 ELSE CHOOSE m \in S : \A x \in S : x <= m

\* ------------------------------------------------------- 64-bit values

\* A 64-bit unsigned value, as its four 16-bit limbs, the most significant
\* first: <<a, b, c, d>> is ((a * 65536 + b) * 65536 + c) * 65536 + d.
Limbs == 0..65535

\* The values a counter is rendered with: 0, values of one word, 2^32 - 1,
\* 2^32, values just past it, and 2^64 - 1 are among them.
Wides ==
  {<<a, b, c, d>> : a \in {0, 65535}, b \in {0, 1, 65535},
                    c \in {0, 1, 65535}, d \in {0, 5, 10, 65535}}

\* v / 10, by long division over the limbs; r is the remainder carried in.
RECURSIVE Div10(_, _)
Div10(v, r) ==
  IF v = <<>> THEN <<>>
  ELSE LET c == r * 65536 + Head(v)
       IN  <<c \div 10>> \o Div10(Tail(v), c % 10)

\* v % 10.
RECURSIVE Mod10(_, _)
Mod10(v, r) ==
  IF v = <<>> THEN r ELSE Mod10(Tail(v), (r * 65536 + Head(v)) % 10)

\* utostr(uint64_t): the decimal digits of a 64-bit value.
RECURSIVE utostr64(_)
utostr64(v) ==
  IF \A i \in DOMAIN v : Div10(v, 0)[i] = 0
    THEN <<48 + Mod10(v, 0)>>
    ELSE utostr64(Div10(v, 0)) \o <<48 + Mod10(v, 0)>>

\* What printf's %u makes of a 64-bit argument: it takes an unsigned int, 32
\* bits, out of what was passed.  Which 32 bits is up to the build: the low
\* word where the argument travels in a register or the machine is little
\* endian, the high word on a big endian machine that passes it in memory.
Words == {"low", "high"}
AsUnsigned(v, word) ==
  IF word = "low" THEN <<0, 0, v[3], v[4]>> ELSE <<0, 0, v[1], v[2]>>

\* ----------------------------------------------- PrintStatistics(raw_ostream &)

\* MaxValLen of a loop without its std::max: the width of the last value.
MaxValLenLast(v) ==
  IF v = <<>> THEN 0 ELSE Len(utostr(Value[v[Len(v)]]))

\* The loop over Stats that finds the widest value and the longest name.
MaxValLen(v) == MaxOf({Len(utostr(Value[v[i]])) : i \in DOMAIN v})
MaxNameLen(v) == MaxOf({Len(Name[v[i]]) : i \in DOMAIN v})

\* StatLess without its secondary key.
StatLessByName(LHS, RHS) == strcmp(Name[LHS], Name[RHS]) < 0

\* The comparison the sort is given: by name, then by description.
StatLess(LHS, RHS) ==
  LET Cmp == strcmp(Name[LHS], Name[RHS])
  IN  IF Cmp # 0 THEN Cmp < 0 ELSE strcmp(Desc[LHS], Desc[RHS]) < 0

\* InsertSorted of a sort that is not stable: an element goes in front of
\* the ones it is equal to.
RECURSIVE InsertSortedTiesFirst(_, _)
InsertSortedTiesFirst(x, v) ==
  IF v = <<>> THEN <<x>>
  ELSE IF ~StatLess(Head(v), x) THEN <<x>> \o v
  ELSE <<Head(v)>> \o InsertSortedTiesFirst(x, Tail(v))

\* std::stable_sort, as an insertion sort: an element goes in front of the
\* first one it is less than, so behind every one it is equal to.
RECURSIVE InsertSorted(_, _)
InsertSorted(x, v) ==
  IF v = <<>> THEN <<x>>
  ELSE IF StatLess(x, Head(v)) THEN <<x>> \o v
  ELSE <<Head(v)>> \o InsertSorted(x, Tail(v))

RECURSIVE stable_sort(_)
stable_sort(v) ==
  IF v = <<>> THEN <<>>
  ELSE InsertSorted(v[Len(v)], stable_sort(SubSeq(v, 1, Len(v) - 1)))

\* format("%*u %-*s - %s\n", MaxValLen, Value, MaxNameLen, Name, Desc)
FormatRow(S, valLen, nameLen) ==
  PadLeft(utostr(Value[S]), valLen) \o <<32>> \o PadRight(Name[S], nameLen)
    \o <<32, 45, 32>> \o Desc[S] \o <<10>>

\* What one call writes to OS: the header, then a row per element of the
\* sorted vector.  stat, vals, reg and flag are history: the Statistic a row
\* is of, and the values, registration order and flag the call ran with.
TableWritten(stream, td) ==
  LET sorted == stable_sort(Stats)
      valLen == MaxValLen(Stats)
      nameLen == MaxNameLen(Stats)
  IN  [kind |-> "table", stream |-> stream, teardown |-> td,
       rows |-> [i \in 1..Len(sorted) |->
                   [stat |-> sorted[i],
                    text |-> FormatRow(sorted[i], valLen, nameLen)]],
       vals |-> Value, reg |-> regOrder, flag |-> Enabled]

\* --------------------------------------------------- llvm::PrintStatistics()

\* NothingToPrint without the test: the table is written for any vector.
NothingToPrintNever == FALSE

\* if (Stats.Stats.empty()) return;
NothingToPrint == Stats = <<>>

\* PrintStatisticsWrites of a build without statistics that does not test
\* the flag before it writes its notice.
PrintStatisticsWritesUngated(td) ==
  IF StatsBuilt
    THEN IF NothingToPrint THEN <<>> ELSE <<TableWritten("info", td)>>
    ELSE <<[kind |-> "notice"]>>

\* What PrintStatistics() writes to the info output stream.
PrintStatisticsWrites(td) ==
  IF StatsBuilt
    THEN IF NothingToPrint THEN <<>> ELSE <<TableWritten("info", td)>>
    ELSE IF Enabled THEN <<[kind |-> "notice"]>> ELSE <<>>

\* The vector PrintStatistics() leaves behind: sorted, when it printed.
PrintStatisticsLeaves ==
  IF StatsBuilt /\ ~NothingToPrint THEN stable_sort(Stats) ELSE Stats

\* -------------------------------------------------- PrintStatisticsToCSV

\* char Timestamp[18];
TimestampSize == 18

Pad2(n) == <<48 + (n \div 10), 48 + (n % 10)>>

\* "%F-%R": year-month-day-hour:minute.
FormatTime(tm) ==
  utostr(tm.year) \o <<45>> \o Pad2(tm.mon) \o <<45>> \o Pad2(tm.mday)
    \o <<45>> \o Pad2(tm.hour) \o <<58>> \o Pad2(tm.min)

\* strftime(Timestamp, 18, "%F-%R", Timeinfo): the number of bytes written,
\* or 0 when the text and its NUL do not fit the buffer.
strftime(tm) ==
  IF Len(FormatTime(tm)) + 1 <= TimestampSize THEN Len(FormatTime(tm)) ELSE 0

\* Statistic::getVarName: the name of the variable the Statistic is.
getVarName(S) == S

\* CsvRequested without the test of the option.
CsvRequestedAlways == TRUE

\* if (!PrintCSV.empty())
CsvRequested == PrintCSV # <<>>

\* if (!Error): whether the rows are written.
RowsWritten(Error) == ~(Error # 0)

\* The rows written for the vector v, one per element, in its order.
CsvRows(v, Timestamp) ==
  [i \in 1..Len(v) |->
     [stat |-> v[i],
      fields |-> <<PrintCSV, Name[v[i]], getVarName(v[i]),
                   utostr(Value[v[i]]), Desc[v[i]], Timestamp>>]]

\* What one call appends to the export file, which it opens for appending,
\* run on the vector v at local time tm, junk being what the unfilled
\* Timestamp buffer holds.  registered, vals, reg and tm are history: the
\* vector, the values and the registration order the call ran with, and the
\* time it ran at.
CsvAppended(v, tm, junk, td) ==
  IF CsvBuilt /\ CsvRequested
    THEN LET Error == strftime(tm)
             Timestamp == IF Error # 0 THEN FormatTime(tm) ELSE junk
         IN  << [path |-> PrintCSV \o <<46, 99, 115, 118>>,
                 Error |-> Error, teardown |-> td,
                 rows |-> IF RowsWritten(Error)
                            THEN CsvRows(v, Timestamp) ELSE <<>>,
                 registered |-> v, vals |-> Value, reg |-> regOrder,
                 tm |-> tm] >>
    ELSE <<>>

\* *OutStream << "Writing to File " << path.str() << "\n";
CsvAnnounced ==
  IF CsvBuilt /\ CsvRequested
    THEN << [kind |-> "writing", path |-> PrintCSV \o <<46, 99, 115, 118>>] >>
    ELSE <<>>

\* Whether the call reaches StatisticInfo &Stats = *StatInfo.
CsvReadsStatInfo(tm) == CsvBuilt /\ CsvRequested /\ RowsWritten(strftime(tm))

\* ------------------------------------------------------------ the requests

\* A call of llvm::PrintStatistics().
RequestPrintStatistics ==
  /\ phase = "running"
  /\ requests < MaxRequests
  /\ requests' = requests + 1
  /\ called' = called \cup {"PrintStatistics"}
  /\ out' = out \o PrintStatisticsWrites(FALSE)
  /\ Stats' = PrintStatisticsLeaves
  /\ created' = (created \/ StatsBuilt)
  /\ UNCHANGED <<config, flag, counters, Initialized, regEnabled, regOrder,
                 threads, csv, touches, phase, torn>>

\* RequestPrintStatisticsOS of a report that starts the counters afresh once
\* it has printed them.
RequestPrintStatisticsOSResetting ==
  /\ phase = "running"
  /\ requests < MaxRequests
  /\ requests' = requests + 1
  /\ called' = called \cup {"PrintStatisticsOS"}
  /\ out' = Append(out, TableWritten("OS", FALSE))
  /\ Stats' = stable_sort(Stats)
  /\ created' = TRUE
  /\ Value' = [s \in Statistics |-> 0]
  /\ UNCHANGED <<config, flag, added, Initialized, regEnabled, regOrder,
                 threads, csv, touches, phase, torn>>

\* A call of llvm::PrintStatistics(OS) with a stream of the caller's.
RequestPrintStatisticsOS ==
  /\ phase = "running"
  /\ requests < MaxRequests
  /\ requests' = requests + 1
  /\ called' = called \cup {"PrintStatisticsOS"}
  /\ out' = Append(out, TableWritten("OS", FALSE))
  /\ Stats' = stable_sort(Stats)
  /\ created' = TRUE
  /\ UNCHANGED <<config, flag, counters, Initialized, regEnabled, regOrder,
                 threads, csv, touches, phase, torn>>

\* RequestPrintStatisticsToCSV of an export that sorts the vector it walks.
RequestPrintStatisticsToCSVSorting(tm, junk) ==
  /\ phase = "running"
  /\ requests < MaxRequests
  /\ requests' = requests + 1
  /\ called' = called \cup {"PrintStatisticsToCSV"}
  /\ out' = out \o CsvAnnounced
  /\ csv' = csv \o CsvAppended(Stats, tm, junk, FALSE)
  /\ created' = (created \/ CsvReadsStatInfo(tm))
  /\ Stats' = stable_sort(Stats)
  /\ UNCHANGED <<config, flag, counters, Initialized, regEnabled,
                 regOrder, threads, touches, phase, torn>>

\* A call of llvm::PrintStatisticsToCSV().
RequestPrintStatisticsToCSV(tm, junk) ==
  /\ phase = "running"
  /\ requests < MaxRequests
  /\ requests' = requests + 1
  /\ called' = called \cup {"PrintStatisticsToCSV"}
  /\ out' = out \o CsvAnnounced
  /\ csv' = csv \o CsvAppended(Stats, tm, junk, FALSE)
  /\ created' = (created \/ CsvReadsStatInfo(tm))
  /\ UNCHANGED <<config, flag, counters, Initialized, regEnabled, Stats,
                 regOrder, threads, touches, phase, torn>>

\* One row of PrintStatistics(OS) for a Statistic whose 64-bit Value is v and
\* is the widest of the table: MaxValLen is the size of utostr(getValue()),
\* and the row is format("%*u ...", MaxValLen, getValue(), ...).
PrintWideRow(v, word) ==
  /\ phase = "running"
  /\ requests < MaxRequests
  /\ requests' = requests + 1
  /\ called' = called \cup {"PrintStatisticsOS"}
  /\ LET MaxValLenOfRow == Len(utostr64(v))
     IN  out' = Append(out,
                  [kind |-> "row64", value |-> v, width |-> MaxValLenOfRow,
                   text |-> PadLeft(utostr64(AsUnsigned(v, word)), MaxValLenOfRow)])
  /\ UNCHANGED <<config, flag, counters, Initialized, regEnabled, registry,
                 threads, csv, touches, phase, torn>>

\* ------------------------------------- a report on a thread of its own

\* Whether some thread is inside PrintStatistics(OS).
Rendering == \E u \in Threads : pc[u] = "render"

\* A thread calls llvm::PrintStatistics(OS): it takes no lock; with
\* StatisticInfo &Stats = *StatInfo it enters the loops over Stats.Stats.
\* The caller sees to it that no two reports run at once.
RenderBegin(t) ==
  /\ phase = "running"
  /\ pc[t] = "idle"
  /\ ~Rendering
  /\ requests < MaxRequests
  /\ requests' = requests + 1
  /\ called' = called \cup {"PrintStatisticsOS"}
  /\ created' = TRUE
  /\ pc' = [pc EXCEPT ![t] = "render"]
  /\ UNCHANGED <<config, flag, counters, Initialized, regEnabled, Stats,
                 regOrder, lock, cur, sinks, touches, phase, torn>>

\* The thread is through the width loop, the sort and the row loop.
RenderEnd(t) ==
  /\ phase = "running"
  /\ pc[t] = "render"
  /\ out' = Append(out, TableWritten("OS", FALSE))
  /\ Stats' = stable_sort(Stats)
  /\ pc' = [pc EXCEPT ![t] = "idle"]
  /\ UNCHANGED <<config, flag, counters, Initialized, regEnabled, created,
                 regOrder, lock, cur, csv, budget, phase, called, torn>>

\* StatInfo->addStatistic(this) while another thread is inside
\* PrintStatistics(OS): push_back writes the vector the other thread reads
\* and sorts, with no lock in common.  That is a data race, and what the
\* program does from there on is undefined.
RacingAddStatistic(t) ==
  /\ phase = "running"
  /\ pc[t] = "add"
  /\ Rendering
  /\ phase' = "undefined"
  /\ UNCHANGED <<config, flag, counters, Initialized, regEnabled, registry,
                 threads, sinks, budget, called, torn>>

\* llvm_shutdown, once the threads are done: a StatInfo that was constructed
\* is destroyed, and ~StatisticInfo calls PrintStatistics() and then
\* PrintStatisticsToCSV().
Shutdown(tm, junk) ==
  /\ phase = "running"
  /\ \A t \in Threads : pc[t] = "idle"
  /\ phase' = "down"
  /\ torn' = <<[destroyed |-> created, stats |-> Stats, flag |-> Enabled]>>
  /\ IF created
       THEN /\ out' = out \o PrintStatisticsWrites(TRUE) \o CsvAnnounced
            /\ csv' = csv \o CsvAppended(PrintStatisticsLeaves, tm, junk, TRUE)
       ELSE UNCHANGED <<out, csv>>
  /\ Stats' = <<>>
  /\ created' = FALSE
  /\ UNCHANGED <<config, flag, counters, Initialized, regEnabled, regOrder,
                 threads, budget, called>>

\* ------------------------------------------------------------------- Next

Next ==
  \/ \E s \in Statistics : \E by \in Amounts[s] : Bump(s, by)
  \/ EnableStatistics
  \/ \E b \in BOOLEAN : SetStatsOption(b)
  \/ RequestPrintStatistics
  \/ RequestPrintStatisticsOS
  \/ \E tm \in Times, junk \in Indeterminate : RequestPrintStatisticsToCSV(tm, junk)
  \/ \E tm \in Times, junk \in Indeterminate : Shutdown(tm, junk)

Spec == Init /\ [][Next]_vars

\* The threads racing, the reports those of teardown.
NextRace ==
  \/ \E t \in Threads, s \in Statistics : \E by \in Amounts[s] : AtomicAdd(t, s, by)
  \/ \E t \in Threads : InitCheck(t)
  \/ \E t \in Threads : AcquireLock(t)
  \/ \E t \in Threads : CheckInitialized(t)
  \/ \E t \in Threads : CheckEnabled(t)
  \/ \E t \in Threads : AddStatistic(t)
  \/ \E t \in Threads : MarkInitialized(t)
  \/ \E t \in Threads : ReleaseLock(t)
  \/ EnableStatistics
  \/ \E b \in BOOLEAN : SetStatsOption(b)
  \/ \E tm \in Times, junk \in Indeterminate : Shutdown(tm, junk)

SpecRace == Init /\ [][NextRace]_vars

\* A step of thread t inside init() and RegisterStatistic.
Step(t) ==
  \/ InitCheck(t)
  \/ AcquireLock(t)
  \/ CheckInitialized(t)
  \/ CheckEnabled(t)
  \/ AddStatistic(t)
  \/ MarkInitialized(t)
  \/ ReleaseLock(t)

\* The threads racing for as long as the program runs, the flag being set
\* at any moment.
NextFair ==
  \/ \E t \in Threads, s \in Statistics : \E by \in Amounts[s] : AtomicAdd(t, s, by)
  \/ \E t \in Threads : Step(t)
  \/ EnableStatistics

\* The threads racing under a scheduler that lets every thread run that can:
\* a thread whose next statement stays executable executes it.  A thread
\* waiting for StatLock is among them once the lock stays free.
SpecFair ==
  /\ Init
  /\ [][NextFair]_vars
  /\ \A t \in Threads : WF_vars(Step(t))

\* The threads racing, any of them asking for a table meanwhile.  After a
\* data race nothing is said about the program any more.
NextRender ==
  \/ \E t \in Threads, s \in Statistics : \E by \in Amounts[s] : AtomicAdd(t, s, by)
  \/ \E t \in Threads : phase = "running" /\ InitCheck(t)
  \/ \E t \in Threads : phase = "running" /\ AcquireLock(t)
  \/ \E t \in Threads : phase = "running" /\ CheckInitialized(t)
  \/ \E t \in Threads : phase = "running" /\ CheckEnabled(t)
  \/ \E t \in Threads : phase = "running" /\ ~Rendering /\ AddStatistic(t)
  \/ \E t \in Threads : RacingAddStatistic(t)
  \/ \E t \in Threads : phase = "running" /\ MarkInitialized(t)
  \/ \E t \in Threads : phase = "running" /\ ReleaseLock(t)
  \/ EnableStatistics
  \/ \E t \in Threads : RenderBegin(t)
  \/ \E t \in Threads : RenderEnd(t)

SpecRender == Init /\ [][NextRender]_vars

\* The rendering of a row, over the 64-bit values a counter may hold.
NextWide == \E v \in Wides, word \in Words : PrintWideRow(v, word)

SpecWide == Init /\ [][NextWide]_vars

\* -------------------------------------------------------------- properties

Quiescent == \A t \in Threads : pc[t] = "idle"

Range(v) == {v[i] : i \in DOMAIN v}

Count(S, v) == Cardinality({i \in DOMAIN v : v[i] = S})

\* The events of a sink that are table reports, by their positions.
Tables == {i \in DOMAIN out : out[i].kind = "table"}

\* The Statistics the rows of a table or of an export are of, in row order.
RowStats(e) == [i \in DOMAIN e.rows |-> e.rows[i].stat]

\* The bytes of the rows of a table, in row order.
RowTexts(e) == [i \in DOMAIN e.rows |-> e.rows[i].text]

\* Where S stands in the vector v.
Position(S, v) == CHOOSE i \in DOMAIN v : v[i] = S

\* C1: a Statistic is never in the registry's vector twice, and once every
\* thread is back from its operator, a Statistic whose registration read the
\* flag as true is in it exactly once, however many threads raced to
\* register it.
ExactlyOnceRegistration ==
  phase = "running" =>
    \A S \in Statistics :
      /\ Count(S, Stats) <= 1
      /\ (Quiescent /\ regEnabled[S] = "on") => Count(S, Stats) = 1

\* C1 witness: a thread holds the lock inside RegisterStatistic for a
\* Statistic another thread has registered meanwhile.
ExactlyOnceRegistrationWitness ==
  \E t \in Threads :
    /\ pc[t] = "check"
    /\ Initialized[cur[t]]
    /\ regEnabled[cur[t]] = "on"
    /\ Count(cur[t], Stats) = 1

MembershipIffInitialized ==
  (phase = "running" /\ lock = NoThread) =>
    \A S \in Statistics : (S \in Range(Stats)) <=> Initialized[S]

\* C3 as amended: outside the critical section, a Statistic is in the vector
\* if and only if its Initialized is true and its registration read the flag
\* as true; a Statistic whose Initialized is false is never in it.
MembershipIffRegisteredEnabled ==
  (phase = "running" /\ lock = NoThread) =>
    \A S \in Statistics :
      (S \in Range(Stats)) <=> (Initialized[S] /\ regEnabled[S] = "on")

\* C3 witness: with the lock free, one Statistic is registered and in the
\* vector and another has Initialized set and is not.
MembershipWitness ==
  /\ phase = "running"
  /\ lock = NoThread
  /\ \E S \in Statistics : Initialized[S] /\ S \in Range(Stats)
  /\ \E S \in Statistics : Initialized[S] /\ S \notin Range(Stats)

\* C4: while the flag has never been true, the vector is empty, StatInfo is
\* constructed only if a report or export entry point was called, and
\* teardown has written no table and no notice.
DisabledSuppressesRegistration ==
  ~everEnabled =>
    /\ Stats = <<>>
    /\ regOrder = <<>>
    /\ (created => called # {})
    /\ (torn # <<>> /\ torn[1].destroyed => called # {})
    /\ \A i \in DOMAIN out :
         /\ out[i].kind # "notice"
         /\ out[i].kind = "table" => ~out[i].teardown /\ out[i].rows = <<>>

\* C4 witness: the flag was never true, counters were touched and have
\* their Initialized set, and teardown has destroyed a constructed StatInfo.
DisabledSuppressesRegistrationWitness ==
  /\ ~everEnabled
  /\ phase = "down"
  /\ torn[1].destroyed
  /\ \E S \in Statistics : Initialized[S] /\ Value[S] > 0

\* C5 as claimed: teardown writes the table once when the vector is not
\* empty and the flag is true at that moment, and no table otherwise.
TeardownGatedOnFlag ==
  phase = "down" =>
    Cardinality({i \in Tables : out[i].teardown}) =
      IF torn[1].stats # <<>> /\ torn[1].flag THEN 1 ELSE 0

\* C6 as claimed: the rows of an export are in the order the counters were
\* registered in.
ExportKeepsRegistrationOrder ==
  \A i \in DOMAIN csv :
    csv[i].rows # <<>> => RowStats(csv[i]) = csv[i].reg

\* C7 as claimed: an export whose timestamp was formatted writes one row per
\* registered counter, with the fields run label, name, variable name,
\* value, description, timestamp.
ExportOneRowPerCounter ==
  \A i \in DOMAIN csv :
    csv[i].Error # 0 =>
      /\ Len(csv[i].rows) = Len(csv[i].registered)
      /\ \A k \in DOMAIN csv[i].rows :
           LET S == csv[i].registered[k]
           IN  /\ csv[i].rows[k].fields[1] = PrintCSV
               /\ csv[i].rows[k].fields[2] = Name[S]
               /\ csv[i].rows[k].fields[3] = getVarName(S)
               /\ csv[i].rows[k].fields[4] = utostr(csv[i].vals[S])
               /\ csv[i].rows[k].fields[5] = Desc[S]
               /\ csv[i].rows[k].fields[6] = FormatTime(csv[i].tm)

\* The order the table is to have: by name, then by description, byte-wise.
KeyBefore(a, b) ==
  \/ strcmp(Name[a], Name[b]) < 0
  \/ (Name[a] = Name[b] /\ strcmp(Desc[a], Desc[b]) < 0)

SameKey(a, b) == Name[a] = Name[b] /\ Desc[a] = Desc[b]

\* C8: every table has one row for each registered counter, the rows
\* ascending by name and then by description, and rows with the same name
\* and description in the order their counters were registered in.
TableRowOrder ==
  \A i \in Tables :
    LET rs == RowStats(out[i])
        reg == out[i].reg
    IN  /\ Len(rs) = Len(reg)
        /\ \A S \in Range(reg) : Count(S, rs) = 1
        /\ \A j \in DOMAIN rs, k \in DOMAIN rs :
             j < k =>
               /\ ~KeyBefore(rs[k], rs[j])
               /\ SameKey(rs[j], rs[k]) =>
                    Position(rs[j], reg) < Position(rs[k], reg)

\* C8 witness: a table of three rows that is not in registration order and
\* holds two counters of the same name and description.
TableRowOrderWitness ==
  \E i \in Tables :
    /\ Len(out[i].rows) = Cardinality(Statistics)
    /\ RowStats(out[i]) # out[i].reg
    /\ \E a \in Statistics, b \in Statistics : a # b /\ SameKey(a, b)

\* C9: two tables rendered from the same values and the same registered
\* counters hold the same rows, byte for byte.
DeterministicRendering ==
  \A i \in Tables, j \in Tables :
    (out[i].vals = out[j].vals /\ out[i].reg = out[j].reg) =>
      RowTexts(out[i]) = RowTexts(out[j])

\* C9 witness: two tables of the same state, of which the first found the
\* vector in another order than it left it.
DeterministicRenderingWitness ==
  \E i \in Tables, j \in Tables :
    /\ i < j
    /\ out[i].vals = out[j].vals
    /\ out[i].reg = out[j].reg
    /\ Len(out[i].rows) >= 2
    /\ RowStats(out[i]) # out[i].reg

\* C10: when no -csv label is given, nothing is appended to the export file
\* and no export line is written to the output stream.
ExportOffByDefault ==
  PrintCSV = <<>> =>
    /\ csv = <<>>
    /\ \A i \in DOMAIN out : out[i].kind # "writing"

\* C10 witness: in a build with the export, without a label, an explicit
\* export and the one of teardown have both run on a registry that is not
\* empty.
ExportOffByDefaultWitness ==
  /\ CsvBuilt
  /\ PrintCSV = <<>>
  /\ "PrintStatisticsToCSV" \in called
  /\ phase = "down"
  /\ torn[1].destroyed
  /\ torn[1].stats # <<>>

\* C11: when llvm_shutdown finds the vector empty, the step of teardown
\* writes no table (no banner, no rows) and appends no row to the export
\* file, whatever the flag, the build and the -csv label are.
EmptyTeardownSilent ==
  [][(phase = "running" /\ phase' = "down" /\ Stats = <<>>) =>
       /\ \A i \in DOMAIN out' \ DOMAIN out : out'[i].kind # "table"
       /\ \A i \in DOMAIN csv' \ DOMAIN csv : csv'[i].rows = <<>>]_vars

\* C11 witness: teardown destroyed a constructed StatInfo whose vector was
\* empty, with the flag true and a -csv label given, at a time at which the
\* export writes its rows.
EmptyTeardownSilentWitness ==
  /\ phase = "down"
  /\ torn[1].destroyed
  /\ torn[1].stats = <<>>
  /\ torn[1].flag
  /\ \E i \in DOMAIN csv : csv[i].teardown /\ RowsWritten(csv[i].Error)

\* The events of a sink that are the notice of a build without statistics.
Notices == {i \in DOMAIN out : out[i].kind = "notice"}

\* A step that runs llvm::PrintStatistics(), called or from ~StatisticInfo.
PrintStatisticsRuns ==
  \/ RequestPrintStatistics
  \/ created /\ \E tm \in Times, junk \in Indeterminate : Shutdown(tm, junk)

\* C12: in a build without statistics, a run of PrintStatistics() with the
\* flag true writes exactly one notice line and nothing else, and with the
\* flag false it writes nothing; no table is written to the info output
\* stream and nothing is appended to the export file.
UnavailableNotice ==
  [][(~StatsBuilt /\ PrintStatisticsRuns) =>
       /\ out' = IF Enabled THEN Append(out, [kind |-> "notice"]) ELSE out
       /\ csv' = csv
       /\ csv = <<>>]_vars

\* C12 witness: a build without statistics has run PrintStatistics() with
\* the flag true and written its one notice.
UnavailableNoticeWitness ==
  /\ ~StatsBuilt
  /\ "PrintStatistics" \in called
  /\ Enabled
  /\ Cardinality(Notices) = 1
  /\ Tables = {}

\* C13: as long as the program runs, no step (a touch, a change of the
\* flag, a table, an export) takes a Statistic out of the vector; and a
\* first touch made while the flag is false adds nothing to it.
RegistryNeverShrinks ==
  [][phase' = "running" =>
       /\ \A S \in Statistics : Count(S, Stats') >= Count(S, Stats)
       /\ \A S \in Statistics :
            (~Initialized[S] /\ Initialized'[S] /\ ~Enabled) => Stats' = Stats]_vars

\* C13 witness: the flag is false again, a Statistic registered while it was
\* true is still in the vector after a table was written, and a Statistic
\* first touched since is not.
RegistryNeverShrinksWitness ==
  /\ phase = "running"
  /\ ~Enabled
  /\ Tables # {}
  /\ \E S \in Statistics : regEnabled[S] = "on" /\ S \in Range(Stats)
  /\ \E S \in Statistics : regEnabled[S] = "off" /\ S \notin Range(Stats)

\* C15: a thread that finds Initialized true under the lock goes straight to
\* the end of RegisterStatistic, and neither that step nor the release of
\* the lock changes the vector, any Initialized or any Value; and no step
\* takes an Initialized from true back to false.
DoubleRegistrationNoOp ==
  [][/\ \A t \in Threads :
          (pc[t] = "check" /\ Initialized[cur[t]] /\ pc'[t] # "check") =>
            /\ pc'[t] = "unlock"
            /\ Stats' = Stats /\ Initialized' = Initialized /\ Value' = Value
     /\ \A t \in Threads :
          (pc[t] = "unlock" /\ pc'[t] # "unlock") =>
            Stats' = Stats /\ Initialized' = Initialized /\ Value' = Value
     /\ \A S \in Statistics : Initialized[S] => Initialized'[S]]_vars

\* C15 witness: a thread holds the lock inside RegisterStatistic, at the
\* test of Initialized, for a Statistic that another thread registered while
\* the flag was false; the flag is true by now and two operator calls have
\* bumped the counter.
DoubleRegistrationNoOpWitness ==
  \E t \in Threads :
    /\ pc[t] = "check"
    /\ lock = t
    /\ Initialized[cur[t]]
    /\ regEnabled[cur[t]] = "off"
    /\ Enabled
    /\ \E by \in Amounts[cur[t]] : Value[cur[t]] = by + by

\* C16: in every state of every interleaving, a Statistic whose Initialized
\* is true and whose registration read the flag as true is in the vector:
\* the push_back comes before the store to Initialized.
PublicationOrder ==
  phase = "running" =>
    \A S \in Statistics :
      (Initialized[S] /\ regEnabled[S] = "on") => S \in Range(Stats)

\* C16 witness: a thread is at the unlocked read of Initialized of a
\* registered Statistic, which is true, while another thread holds the lock.
PublicationOrderWitness ==
  \E u \in Threads :
    /\ pc[u] = "init"
    /\ Initialized[cur[u]]
    /\ regEnabled[cur[u]] = "on"
    /\ lock \notin {u, NoThread}

\* The number of decimal digits of n.
RECURSIVE DigitCount(_)
DigitCount(n) == IF n < 10 THEN 1 ELSE 1 + DigitCount(n \div 10)

\* The k-th decimal digit of n from the left, of d digits, as a byte.
RECURSIVE Pow10(_)
Pow10(k) == IF k = 0 THEN 1 ELSE 10 * Pow10(k - 1)

DigitAt(n, d, k) == 48 + ((n \div Pow10(d - k)) % 10)

\* The decimal digits of n, most significant first.
Decimal(n) == [k \in 1..DigitCount(n) |-> DigitAt(n, DigitCount(n), k)]

\* The row of S in a table whose value column is valW wide and whose name
\* column is nameW wide: the value right-aligned, a space, the name
\* left-aligned and padded, " - ", the description, the end of the line.
AlignedRow(S, v, valW, nameW) ==
  [j \in 1..(valW - DigitCount(v)) |-> 32] \o Decimal(v) \o <<32>>
    \o Name[S] \o [j \in 1..(nameW - Len(Name[S])) |-> 32]
    \o <<32, 45, 32>> \o Desc[S] \o <<10>>

\* Whether the rows of the table e are laid out in columns as wide as the
\* largest digit count among the values of the registered counters and as
\* the longest of their names.
RowsAligned(e) ==
  LET valW == MaxOf({DigitCount(e.vals[S]) : S \in Range(e.reg)})
      nameW == MaxOf({Len(Name[S]) : S \in Range(e.reg)})
  IN  \A k \in DOMAIN e.rows :
        e.rows[k].text =
          AlignedRow(e.rows[k].stat, e.vals[e.rows[k].stat], valW, nameW)

\* C14: every table of at least one row has its value column as wide as
\* the largest digit count among the values and its name column as wide as
\* the longest name, and every row of it is: value right-aligned, space,
\* name left-aligned and padded, " - ", description.  The table is written
\* with every thread out of its operator, so no value changes meanwhile.
ColumnWidths ==
  \A i \in Tables : out[i].rows # <<>> => RowsAligned(out[i])

\* C14 witness: a table in which a value of one digit stands under one of
\* two, the wider value not being the last in the vector, and a name of one
\* byte under one of two.
ColumnWidthsWitness ==
  \E i \in Tables :
    LET e == out[i]
    IN  /\ \E a \in Range(e.reg), b \in Range(e.reg) :
             /\ DigitCount(e.vals[a]) = 2 /\ DigitCount(e.vals[b]) = 1
             /\ Position(a, e.reg) < Position(b, e.reg)
        /\ \E a \in Range(e.reg), b \in Range(e.reg) :
             Len(Name[a]) = 2 /\ Len(Name[b]) = 1
        /\ \E k \in DOMAIN e.rows : e.rows[k].text[1] = 32

\* C17 as claimed: for every 64-bit counter value, the number printed in its
\* row is that value in decimal, right-aligned to the width, and the width
\* is the digit count of that same value.
RenderedValueIs64Bit ==
  \A i \in DOMAIN out :
    out[i].kind = "row64" =>
      /\ out[i].width = Len(utostr64(out[i].value))
      /\ out[i].text = utostr64(out[i].value)

\* A step that is a call of llvm::PrintStatisticsToCSV().
ExportRuns ==
  \E tm \in Times, junk \in Indeterminate : RequestPrintStatisticsToCSV(tm, junk)

\* C18: a call of the export, whether it writes a row for every element of
\* the vector or no row at all, leaves every Value and every Initialized as
\* they were, and the vector with the same elements in the same order.
ExportLeavesCounters ==
  [][ExportRuns =>
       /\ Value' = Value
       /\ Initialized' = Initialized
       /\ Stats' = Stats]_vars

\* C18 witness: the program runs on after an export that was asked for with
\* a label in a build that has it, on a vector of two Statistics that is not
\* in sorted order.
ExportLeavesCountersWitness ==
  /\ phase = "running"
  /\ "PrintStatisticsToCSV" \in called
  /\ csv # <<>>
  /\ Len(Stats) >= 2
  /\ Stats # stable_sort(Stats)
  /\ \E S \in Range(Stats) : Value[S] > 0

\* C20: the first touch of a Statistic made while the flag is false sets
\* its Initialized and does not add it; and no later step, whatever the
\* flag has become and however often the counter is touched again, adds it
\* to the vector, clears its Initialized, or writes a row of it to a table
\* or to the export file.
LateEnableNotRetroactive ==
  [][\A S \in Statistics :
       (regEnabled[S] = "off" \/ (~Initialized[S] /\ Initialized'[S] /\ ~Enabled)) =>
         /\ Initialized'[S]
         /\ S \notin Range(Stats')
         /\ \A i \in DOMAIN out' \ DOMAIN out :
              out'[i].kind = "table" =>
                \A k \in DOMAIN out'[i].rows : out'[i].rows[k].stat # S
         /\ \A i \in DOMAIN csv' \ DOMAIN csv :
              \A k \in DOMAIN csv'[i].rows : csv'[i].rows[k].stat # S]_vars

\* C20 witness: a table written with the flag true found a Statistic
\* touched and not registered; the Statistic was touched again afterwards,
\* and the table of teardown, written with the flag true and holding another
\* Statistic, is without it as well.
LateEnableNotRetroactiveWitness ==
  \E S \in Statistics, i \in Tables, j \in Tables :
    /\ regEnabled[S] = "off"
    /\ i < j
    /\ out[i].flag /\ out[i].vals[S] > 0
    /\ out[j].flag /\ out[j].teardown /\ out[j].vals[S] > out[i].vals[S]
    /\ out[j].rows # <<>>

\* C19 as claimed: in no interleaving is a thread inside PrintStatistics(OS),
\* reading and sorting the vector, while another thread is at the push_back
\* of its registration, unless it holds StatLock itself; and no run comes
\* to a data race on the vector.
RegistryAccessExcluded ==
  /\ phase # "undefined"
  /\ \A t \in Threads :
       pc[t] = "render" =>
         \/ lock = t
         \/ \A u \in Threads \ {t} : pc[u] # "add"

\* A step that is a call of llvm::PrintStatistics() or of
\* llvm::PrintStatistics(OS).
TableRuns == RequestPrintStatistics \/ RequestPrintStatisticsOS

\* What a rendering of the table is to leave alone: every Statistic as
\* often in the vector as it was, every Value, every Initialized and the
\* flag, and everything else of the program but the order of the vector,
\* the stream written to, and a StatisticInfo constructed, empty, when there
\* was none.
TableFrame ==
  /\ \A S \in Statistics : Count(S, Stats') = Count(S, Stats)
  /\ Len(Stats') = Len(Stats)
  /\ Value' = Value
  /\ Initialized' = Initialized
  /\ Enabled' = Enabled
  /\ (created => created')
  /\ UNCHANGED <<config, threads, csv, phase>>

\* C21: a call that renders the table changes the order of the vector only:
\* the counters in the registry, their values, their Initialized and the
\* flag are as before.
TableRenderChangesOrderOnly == [][TableRuns => TableFrame]_vars

\* C21 witness: the program runs on after PrintStatistics(OS) has written a
\* table of counters that were bumped, with the flag true, and left the
\* vector in another order than the counters were registered in.
TableRenderChangesOrderOnlyWitness ==
  /\ phase = "running"
  /\ "PrintStatisticsOS" \in called
  /\ Enabled
  /\ Len(Stats) >= 2
  /\ Stats # regOrder
  /\ \A S \in Range(Stats) : Value[S] > 0 /\ Initialized[S]

\* Whether thread t is inside the critical section of RegisterStatistic.
InCriticalSection(t) == pc[t] \in {"check", "enabled", "add", "mark", "unlock"}

\* C22: under fair scheduling every thread that enters RegisterStatistic
\* gets StatLock, and every thread that holds it comes to the end of
\* RegisterStatistic and has released it, whether it found the Statistic
\* registered or not; and at all times the lock is held by a thread inside
\* the critical section or by none.
RegistrationCompletes ==
  /\ [](\A t \in Threads : (lock = t) <=> InCriticalSection(t))
  /\ \A t \in Threads : (pc[t] = "lock") ~> (lock = t)
  /\ \A t \in Threads : (lock = t) ~> (pc[t] = "idle" /\ lock # t)

\* C22 witness: a thread waits for StatLock, to register a Statistic that
\* the thread holding the lock is registering, while its Initialized is
\* still false.
RegistrationCompletesWitness ==
  \E t \in Threads, u \in Threads :
    /\ pc[t] = "lock"
    /\ lock = u
    /\ cur[t] = cur[u]
    /\ ~Initialized[cur[t]]

====
